---- MODULE Spec2Model ----
(***************************************************************************)
(* A model of the Q0 measurement engine of src/container.py: the session   *)
(* cache of a Container, the processData pipeline of a DataSession /       *)
(* Q0DataSession (buffer loading, run segmentation, settle-time trimming,  *)
(* regression) and the Q0 derivation of a Q0DataRun.                       *)
(*                                                                         *)
(* Python indices are 0-based; a buffer is a TLA+ sequence and At(buf, i)  *)
(* reads Python's buf[i].  Run records keep the 0-based indices.           *)
(***************************************************************************)
EXTENDS Integers, Sequences, FiniteSets, TLC

(***************************************************************************)
(* Bounds of the model.                                                    *)
(***************************************************************************)
\* the largest number of data rows of a session file
MaxRows == 4

(***************************************************************************)
(* Program constants.  container.py imports the tolerances from utils      *)
(* (lines 22-26); the values below are the ones of measureQ0.py where it   *)
(* sets them, and representative ones otherwise.  Heat loads are in W,     *)
(* times in s, gradients in MV/m, levels in %.                             *)
(***************************************************************************)
VALVE_POSITION_TOLERANCE == 2
\* GRAD_TOLERANCE is 0.7 MV/m: kept in tenths to stay in the integers
GRAD_TOLERANCE_TENTHS == 7
HEATER_TOLERANCE == 1
MIN_RUN_DURATION == 50
MIN_DS_LL == 90
\* the scale factor of adjustForSettle: 25 s of settling per W of heat step
SETTLE_SCALE == 25

\* Python's None and the text of a cell that float() cannot parse: two
\* reserved integers outside every range of values, so that the buffers stay
\* sequences of integers
None == -9999
Malformed == -8888

VARIABLES
    \* ---- the DataSession under processData --------------------------------
    kind,              \* "calib" (DataSession) or "q0" (Q0DataSession)
    csvRows,           \* the rows of the session file (after the header)
    refValvePos,
    refHeatLoad,
    unixTimeBuff,
    dsLevelBuff,
    valvePosBuff,
    elecHeatDesBuff,
    elecHeatActBuff,
    gradBuff,
    dsPressBuff,
    hasPressCol,       \* whether the file has the pressure column
    dataRuns,          \* sequence of runs [startIdx, endIdx, slope]
    calibSlope,
    heatAdjustment,
    pc,                \* position inside processData
    idx,               \* loop index of populateRuns / adjustForSettle
    runStartIdx,       \* the pending run start of populateRuns
    invoked,           \* the steps of processData that were entered
    emitted,           \* history: the runs as segmentation emitted them
    \* ---- one Q0DataRun of a Q0DataSession, under its q0 property ----------
    q0Run,             \* [startIdx, endIdx, elecHeatLoadDes, rfHeatLoad]
    refGradVal,
    q0pc,              \* position inside q0
    q0Idx,             \* loop index of q0
    q0s,               \* the per-sample results collected so far
    numInvalidGrads,   \* the count q0 reports on stderr
    q0Result,          \* what q0 returned
    \* ---- the session caches of the Containers ------------------------------
    container,         \* "CM" (Cryomodule) or "CAV" (Cavity)
    dataSessions,      \* session hash -> session
    genCalls,          \* history: session hash -> calls of genDataSession
    nCalls,            \* history: number of addDataSession calls
    lastCall,          \* history: the latest addDataSession call
    returned,          \* what the latest addDataSession call returned
    \* ---- sessions whose file name is asked for ----------------------------
    fileSessions,      \* sequence of sessions with their cached name fields
    \* ---- a processed Q0DataSession under printReport ----------------------
    q0CalibSession,    \* the calibration session of the Q0 session
    report,            \* what printReport read from the runs so far
    \* ---- generateCSV of a session of a Cryomodule -------------------------
    archive,           \* what parseRawData returns: nothing, or header and rows
    sessionFile,       \* the session's file: whether it exists, its content
    genResult,         \* what generateCSV returned
    \* ---- a Cryomodule and two of its Cavities, each with its own cache ----
    caches,            \* container -> (session hash -> session)
    familyCalls,       \* history: number of addDataSession calls
    familyLast,        \* history: the container and the hash of the latest call
    \* ---- processData called again on a processed session ------------------
    passes,            \* history: number of processData calls
    firstPass          \* history: buffers and runs when the first call ended

sessVars == <<kind, csvRows, refValvePos, refHeatLoad, unixTimeBuff,
              dsLevelBuff, valvePosBuff, elecHeatDesBuff, elecHeatActBuff,
              gradBuff, dsPressBuff, hasPressCol, dataRuns, calibSlope,
              heatAdjustment, pc, idx, runStartIdx, invoked, emitted>>

q0Vars == <<q0Run, refGradVal, q0pc, q0Idx, q0s, numInvalidGrads, q0Result>>

cacheVars == <<container, dataSessions, genCalls, nCalls, lastCall, returned>>

genVars == <<archive, sessionFile, genResult>>

familyVars == <<caches, familyCalls, familyLast>>

rerunVars == <<passes, firstPass>>

laterVars == <<genVars, familyVars, rerunVars>>

auxVars == <<fileSessions, q0CalibSession, report, laterVars>>

vars == <<sessVars, q0Vars, cacheVars, auxVars>>

(***************************************************************************)
(* Helpers                                                                 *)
(***************************************************************************)
At(buf, i) == buf[i + 1]

Abs(x) == IF x < 0 THEN -x ELSE x

\* int(): truncation toward zero of the rational n / d, d > 0
TruncDiv(n, d) == IF n >= 0 THEN n \div d ELSE -((-n) \div d)

RECURSIVE SumSeq(_)
SumSeq(s) == IF s = <<>> THEN 0 ELSE Head(s) + SumSeq(Tail(s))

\* Python's s[a:b] for 0 <= a; an empty list when a >= b
Slice(s, a, b) ==
    LET hi == IF b < Len(s) THEN b ELSE Len(s)
    IN  IF a >= hi THEN <<>> ELSE SubSeq(s, a + 1, hi)

(***************************************************************************)
(* The session file.  A row holds one cell per column; a cell is a number  *)
(* or text that float() rejects.  The time stamp is kept as the seconds    *)
(* elapsed since the previous row (dt), so unix times are the running sum. *)
(***************************************************************************)
RefValve == 30
NominalGrad == 4
NominalPress == 23

Row(dt, lvl, valve, des, act, grad) ==
    [dt |-> dt, lvl |-> lvl, valve |-> valve, des |-> des, act |-> act,
     grad |-> grad, press |-> NominalPress]

\* the rows a calibration file is drawn from: a steady sample at heater
\* setpoint 0, 1 or 2 W, and one deviation from the steady sample each
CalibRows ==
    { Row(25, MIN_DS_LL + 1, RefValve, d, d, NominalGrad) : d \in {0, 1, 2} }
    \cup
    { Row(50, MIN_DS_LL + 1, RefValve, 1, 1, NominalGrad),
      Row(25, MIN_DS_LL - 1, RefValve, 1, 1, NominalGrad),
      Row(25, MIN_DS_LL, RefValve, 1, 1, NominalGrad),
      Row(25, MIN_DS_LL + 1, RefValve + VALVE_POSITION_TOLERANCE + 1, 1, 1,
          NominalGrad),
      Row(25, MIN_DS_LL + 1, RefValve, 1, 1 + HEATER_TOLERANCE, NominalGrad),
      Row(25, MIN_DS_LL + 1, Malformed, 1, 1, NominalGrad) }

\* a Q0 file also has the gradient column: a gradient step and a zero reading
Q0Rows ==
    CalibRows
    \cup
    { Row(25, MIN_DS_LL + 1, RefValve, 1, 1, NominalGrad + 1),
      Row(25, MIN_DS_LL + 1, RefValve, 1, 1, 0) }

RowsOf(k) == IF k = "calib" THEN CalibRows ELSE Q0Rows

RECURSIVE SeqsUpTo(_, _)
SeqsUpTo(S, n) ==
    IF n = 0 THEN { <<>> }
    ELSE LET shorter == SeqsUpTo(S, n - 1)
         IN  shorter \cup { Append(s, x) : s \in { t \in shorter : Len(t) = n - 1 },
                                           x \in S }

(***************************************************************************)
(* DataSession.parseDataFromCSV                                            *)
(***************************************************************************)
\* float(cell), with the except ValueError branch appending None
parseCell(cell) == IF cell = Malformed THEN None ELSE cell

\* the unix times of the rows, the first one dt after `last`; the rows are
\* summed by halves to keep the recursion shallow
RECURSIVE parseTimes(_, _)
parseTimes(rows, last) ==
    IF rows = <<>> THEN <<>>
    ELSE IF Len(rows) = 1 THEN <<last + rows[1].dt>>
    ELSE LET h == Len(rows) \div 2
             left == parseTimes(SubSeq(rows, 1, h), last)
         IN  left \o parseTimes(SubSeq(rows, h + 1, Len(rows)), left[h])

\* a loader that skips the cell float() rejects
IsParsed(x) == x # None

parseColumnSkipping(rows, col) ==
    SelectSeq([i \in 1..Len(rows) |-> parseCell(rows[i][col])], IsParsed)

parseColumn(rows, col) == [i \in 1..Len(rows) |-> parseCell(rows[i][col])]

\* linkBuffToColumn binds no buffer to a column the header lacks: the buffer
\* of a missing column is never appended to
parseLinked(buff, rows, col, linked) ==
    IF linked THEN buff \o parseColumn(rows, col) ELSE buff

parseDataFromCSV ==
    /\ pc = "parse"
    \* the time stamps of the file are absolute: the same at every parse
    /\ unixTimeBuff' = unixTimeBuff \o parseTimes(csvRows, 0)
    /\ dsLevelBuff' = dsLevelBuff \o parseColumn(csvRows, "lvl")
    /\ valvePosBuff' = valvePosBuff \o parseColumn(csvRows, "valve")
    /\ elecHeatDesBuff' = elecHeatDesBuff \o parseColumn(csvRows, "des")
    /\ elecHeatActBuff' = elecHeatActBuff \o parseColumn(csvRows, "act")
    \* only a Q0DataSession maps the gradient and pressure columns to buffers
    /\ gradBuff' = parseLinked(gradBuff, csvRows, "grad", kind = "q0")
    /\ dsPressBuff' = parseLinked(dsPressBuff, csvRows, "press",
                                  kind = "q0" /\ hasPressCol)
    /\ pc' = IF csvRows = <<>> /\ elecHeatDesBuff = <<>> THEN "checkRuns"
             ELSE "populate"
    /\ idx' = 0
    /\ runStartIdx' = 0
    /\ UNCHANGED <<kind, csvRows, refValvePos, refHeatLoad, dataRuns,
                   calibSlope, heatAdjustment, invoked, emitted, hasPressCol>>
    /\ UNCHANGED <<auxVars, q0Vars, cacheVars>>

(***************************************************************************)
(* Run segmentation: isEndOfCalibRun, checkAndFlushRun, populateRuns       *)
(***************************************************************************)
\* the TypeError of abs(None - x) in isEndOfCalibRun
isEndOfCalibRunRaises(i) ==
    \/ At(valvePosBuff, i) = None
    \/ At(elecHeatDesBuff, i) = None
    \/ At(elecHeatActBuff, i) = None

heaterChanged(i) ==
    LET elecHeatLoad == At(elecHeatDesBuff, i)
        prevElecHeatLoad == IF i > 0 THEN At(elecHeatDesBuff, i - 1)
                            ELSE elecHeatLoad
    IN  elecHeatLoad # prevElecHeatLoad

\* Python 2 orders None below every number
liqLevelTooLow(i) ==
    IF At(dsLevelBuff, i) = None THEN TRUE
    ELSE At(dsLevelBuff, i) < MIN_DS_LL

valveOutsideTol(i) ==
    Abs(At(valvePosBuff, i) - refValvePos) > VALVE_POSITION_TOLERANCE

isLastElement(i) == i = Len(elecHeatDesBuff) - 1

heatersOutsideTol(i) ==
    Abs(At(elecHeatDesBuff, i) - At(elecHeatActBuff, i)) >= HEATER_TOLERANCE

isEndOfCalibRun(i) ==
    \/ heaterChanged(i)
    \/ liqLevelTooLow(i)
    \/ valveOutsideTol(i)
    \/ isLastElement(i)
    \/ heatersOutsideTol(i)

\* Q0DataSession.populateRuns: a TypeError (a None gradient) counts as no change
gradChanged(i) ==
    IF i = 0 THEN FALSE
    ELSE IF At(gradBuff, i) = None \/ At(gradBuff, i - 1) = None THEN FALSE
    ELSE 10 * Abs(At(gradBuff, i) - At(gradBuff, i - 1)) > GRAD_TOLERANCE_TENTHS

isEndOfRun(i) ==
    IF kind = "q0" THEN isEndOfCalibRun(i) \/ gradChanged(i)
    ELSE isEndOfCalibRun(i)

\* A number the regression produces: a rational n / d (d > 0), NaN, or the
\* attribute still being None
Rat(n, d) == [tag |-> "rat", n |-> n, d |-> d]
NaN == [tag |-> "nan", n |-> 0, d |-> 1]
Unset == [tag |-> "None", n |-> 0, d |-> 1]

NewRun(startIdx, endIdx) ==
    [startIdx |-> startIdx, endIdx |-> endIdx, slope |-> Unset]

\* checkAndFlushRun without the minimum duration test
flushRunsNoMinimum(runs, isEnd, i, start) ==
    IF isEnd THEN Append(runs, NewRun(start, i - 1)) ELSE runs

\* checkAndFlushRun ending the run at the break index itself
flushRunsEndAtBreak(runs, isEnd, i, start) ==
    IF isEnd /\ At(unixTimeBuff, i) - At(unixTimeBuff, start) >= MIN_RUN_DURATION
    THEN Append(runs, NewRun(start, i))
    ELSE runs

\* the runs after checkAndFlushRun(isEnd, i, start); it returns flushStart
flushRuns(runs, isEnd, i, start) ==
    IF isEnd /\ At(unixTimeBuff, i) - At(unixTimeBuff, start) >= MIN_RUN_DURATION
    THEN Append(runs, NewRun(start, i - 1))
    ELSE runs

\* checkAndFlushRun moving the pending start only when it emits a run
flushStartOnEmit(isEnd, i, start) ==
    IF isEnd /\ At(unixTimeBuff, i) - At(unixTimeBuff, start) >= MIN_RUN_DURATION
    THEN i
    ELSE start

flushStart(isEnd, i, start) == IF isEnd THEN i ELSE start

\* one iteration of the for loop of populateRuns
populateRuns ==
    /\ pc = "populate"
    /\ idx < Len(elecHeatDesBuff)
    /\ IF isEndOfCalibRunRaises(idx)
       THEN /\ pc' = "fault"
            /\ UNCHANGED <<dataRuns, emitted, runStartIdx, idx>>
       ELSE /\ dataRuns' = flushRuns(dataRuns, isEndOfRun(idx), idx, runStartIdx)
            /\ emitted' = flushRuns(emitted, isEndOfRun(idx), idx, runStartIdx)
            /\ runStartIdx' = flushStart(isEndOfRun(idx), idx, runStartIdx)
            /\ idx' = idx + 1
            /\ pc' = IF idx + 1 = Len(elecHeatDesBuff) THEN "checkRuns"
                     ELSE "populate"
    /\ UNCHANGED <<auxVars, q0Vars, cacheVars, dsPressBuff, hasPressCol>>
    /\ UNCHANGED <<kind, csvRows, refValvePos, refHeatLoad, unixTimeBuff,
                   dsLevelBuff, valvePosBuff, elecHeatDesBuff, elecHeatActBuff,
                   gradBuff, calibSlope, heatAdjustment, invoked>>


(***************************************************************************)
(* Settle-time trimming: getTotalHeatDelta, adjustForSettle                *)
(* Heat loads are carried in 1/80 W, the unit in which approxHeatFromGrad  *)
(* is whole: ((g / 16) ** 2) * 9.6 = 3 g^2 / 80.                           *)
(***************************************************************************)
HEAT_DEN == 80

\* in 1/80 W; Python 2 has None > 0 False
approxHeatFromGrad(grad) ==
    IF grad # None /\ grad > 0 THEN 3 * grad * grad ELSE 0

\* DataSession.getTotalHeatDelta, in 1/80 W
calibTotalHeatDelta(runs, startIdx, currIdx) ==
    IF currIdx = 0
    THEN HEAT_DEN * (At(elecHeatDesBuff, startIdx) - refHeatLoad)
    ELSE LET prevStartIdx == runs[currIdx].startIdx
         IN  Abs(HEAT_DEN * (At(elecHeatDesBuff, startIdx)
                             - At(elecHeatDesBuff, prevStartIdx)))

\* Q0DataSession.getTotalHeatDelta, in 1/80 W
q0TotalHeatDelta(runs, startIdx, currIdx) ==
    IF currIdx = 0
    THEN HEAT_DEN * (At(elecHeatDesBuff, startIdx) - refHeatLoad)
         + approxHeatFromGrad(At(gradBuff, startIdx))
    ELSE LET prevStartIdx == runs[currIdx].startIdx
             elecHeatDelta == HEAT_DEN * (At(elecHeatDesBuff, startIdx)
                                          - At(elecHeatDesBuff, prevStartIdx))
             gradHeatDelta == approxHeatFromGrad(At(gradBuff, startIdx))
                              - approxHeatFromGrad(At(gradBuff, prevStartIdx))
         IN  Abs(elecHeatDelta + gradHeatDelta)

\* currIdx is the 0-based position of the run; runs[currIdx] is the run before
getTotalHeatDelta(runs, startIdx, currIdx) ==
    IF kind = "q0" THEN q0TotalHeatDelta(runs, startIdx, currIdx)
    ELSE calibTotalHeatDelta(runs, startIdx, currIdx)

\* cutoff = int(totalHeatDelta * 25)
settleCutoff(delta80) == TruncDiv(SETTLE_SCALE * delta80, HEAT_DEN)

\* the while loop of adjustForSettle going on while duration <= cutoff
RECURSIVE settleLoopInclusive(_, _, _, _)
settleLoopInclusive(i, duration, startTime, cutoff) ==
    IF duration <= cutoff
    THEN IF i + 1 >= Len(unixTimeBuff) THEN None
         ELSE settleLoopInclusive(i + 1, At(unixTimeBuff, i + 1) - startTime,
                                  startTime, cutoff)
    ELSE i

\* the while loop of adjustForSettle from index i with the given duration:
\* the index it stops at, or None when unixTimeBuff[idx] raises IndexError
RECURSIVE settleLoop(_, _, _, _)
settleLoop(i, duration, startTime, cutoff) ==
    IF duration < cutoff
    THEN IF i + 1 >= Len(unixTimeBuff) THEN None
         ELSE settleLoop(i + 1, At(unixTimeBuff, i + 1) - startTime,
                         startTime, cutoff)
    ELSE i

settledStart(runs, i) ==
    LET startIdx == runs[i + 1].startIdx
        cutoff == settleCutoff(getTotalHeatDelta(runs, startIdx, i))
    IN  settleLoop(startIdx, 0, At(unixTimeBuff, startIdx), cutoff)

\* processData without the return on an empty run list
checkRunsNoReturn ==
    /\ pc = "checkRuns"
    /\ pc' = "settle"
    /\ idx' = 0
    /\ UNCHANGED <<auxVars, q0Vars, cacheVars, dsPressBuff, hasPressCol>>
    /\ UNCHANGED <<kind, csvRows, refValvePos, refHeatLoad, unixTimeBuff,
                   dsLevelBuff, valvePosBuff, elecHeatDesBuff, elecHeatActBuff,
                   gradBuff, dataRuns, calibSlope, heatAdjustment, runStartIdx,
                   invoked, emitted>>

\* if not self.dataRuns: return
checkRuns ==
    /\ pc = "checkRuns"
    /\ pc' = IF dataRuns = <<>> THEN "done" ELSE "settle"
    /\ idx' = 0
    /\ UNCHANGED <<auxVars, q0Vars, cacheVars, dsPressBuff, hasPressCol>>
    /\ UNCHANGED <<kind, csvRows, refValvePos, refHeatLoad, unixTimeBuff,
                   dsLevelBuff, valvePosBuff, elecHeatDesBuff, elecHeatActBuff,
                   gradBuff, dataRuns, calibSlope, heatAdjustment, runStartIdx,
                   invoked, emitted>>

\* one iteration of the for loop of adjustForSettle, on run number idx
adjustForSettle ==
    /\ pc = "settle"
    /\ idx < Len(dataRuns)
    /\ LET newStart == settledStart(dataRuns, idx)
       IN  IF newStart = None
           THEN /\ pc' = "fault"
                /\ UNCHANGED <<dataRuns, idx>>
           ELSE /\ dataRuns' = [dataRuns EXCEPT ![idx + 1].startIdx = newStart]
                /\ idx' = IF idx + 1 = Len(dataRuns) THEN 0 ELSE idx + 1
                /\ pc' = IF idx + 1 = Len(dataRuns) THEN "regress" ELSE "settle"
    /\ invoked' = invoked \cup {"adjustForSettle"}
    /\ UNCHANGED <<auxVars, q0Vars, cacheVars, dsPressBuff, hasPressCol>>
    /\ UNCHANGED <<kind, csvRows, refValvePos, refHeatLoad, unixTimeBuff,
                   dsLevelBuff, valvePosBuff, elecHeatDesBuff, elecHeatActBuff,
                   gradBuff, calibSlope, heatAdjustment, runStartIdx, emitted>>


(***************************************************************************)
(* Exact rational arithmetic for the regression engine                     *)
(***************************************************************************)
RECURSIVE Gcd(_, _)
Gcd(a, b) == IF b = 0 THEN a ELSE Gcd(b, a % b)

\* n / d in lowest terms with a positive denominator (d # 0)
Norm(n, d) ==
    LET g == Gcd(Abs(n), Abs(d))
        sgn == IF d < 0 THEN -1 ELSE 1
    IN  Rat(sgn * (n \div g), sgn * (d \div g))

IsRat(a) == a.tag = "rat"

RatAdd(a, b) ==
    IF IsRat(a) /\ IsRat(b) THEN Norm(a.n * b.d + b.n * a.d, a.d * b.d) ELSE NaN

RatSub(a, b) ==
    IF IsRat(a) /\ IsRat(b) THEN Norm(a.n * b.d - b.n * a.d, a.d * b.d) ELSE NaN

RatMul(a, b) ==
    IF IsRat(a) /\ IsRat(b) THEN Norm(a.n * b.n, a.d * b.d) ELSE NaN

\* a numpy float division: dividing by zero gives inf or nan, not an exception
RatDiv(a, b) ==
    IF IsRat(a) /\ IsRat(b) /\ b.n # 0 THEN Norm(a.n * b.d, a.d * b.n) ELSE NaN

RatLess(a, b) == a.n * b.d < b.n * a.d

RECURSIVE RatSum(_)
RatSum(s) == IF s = <<>> THEN Rat(0, 1) ELSE RatAdd(Head(s), RatSum(Tail(s)))

(***************************************************************************)
(* Regression: scipy's linregress per run, numpy's polyfit over the runs   *)
(***************************************************************************)
\* run.times and run.data: the slices [startIdx:endIdx], the end excluded
runTimes(run) == Slice(unixTimeBuff, run.startIdx, run.endIdx)
runData(run) == Slice(dsLevelBuff, run.startIdx, run.endIdx)

\* linregress raises on empty input and on data that holds None
linregressRaises(xs, ys) ==
    \/ xs = <<>>
    \/ \E i \in 1..Len(ys) : ys[i] = None

\* the least squares slope; NaN when the times have no variance (one sample)
linregressSlope(xs, ys) ==
    LET n == Len(xs)
        sxy == SumSeq([i \in 1..n |-> xs[i] * ys[i]])
        sxx == SumSeq([i \in 1..n |-> xs[i] * xs[i]])
        den == n * sxx - SumSeq(xs) * SumSeq(xs)
    IN  IF den = 0 THEN NaN
        ELSE Norm(n * sxy - SumSeq(xs) * SumSeq(ys), den)

\* run.elecHeatLoad without the session's heatAdjustment
elecHeatLoadRaw(run) ==
    At(elecHeatActBuff, run.endIdx) - At(elecHeatActBuff, 0)

\* run.elecHeatLoad
elecHeatLoad(run) == RatAdd(Rat(elecHeatLoadRaw(run), 1), heatAdjustment)

\* A value of a rank deficient fit: polyfit warns and returns one of the
\* infinitely many least squares solutions
RankDeficient == [tag |-> "rankdef", n |-> 0, d |-> 1]

\* the least squares line of polyfit(xs, ys, 1) for whole xs and rational ys
polyfitLine(xs, ys) ==
    LET k == Len(xs)
        sx == SumSeq(xs)
        sxx == SumSeq([i \in 1..k |-> xs[i] * xs[i]])
        sy == RatSum(ys)
        sxy == RatSum([i \in 1..k |-> RatMul(Rat(xs[i], 1), ys[i])])
        v == k * sxx - sx * sx
        m == RatDiv(RatSub(RatMul(Rat(k, 1), sxy), RatMul(Rat(sx, 1), sy)),
                    Rat(v, 1))
        b == RatDiv(RatSub(sy, RatMul(m, Rat(sx, 1))), Rat(k, 1))
    IN  IF \E i \in 1..k : ~IsRat(ys[i])
        THEN [slope |-> NaN, intercept |-> NaN]
        ELSE IF v = 0
        THEN [slope |-> RankDeficient, intercept |-> RankDeficient]
        ELSE [slope |-> m, intercept |-> b]

\* polyfit unpacked lowest power first: the two coefficients exchanged
polyfitLowestFirst(xs, ys) ==
    [slope |-> polyfitLine(xs, ys).intercept,
     intercept |-> polyfitLine(xs, ys).slope]

\* self.calibSlope, yIntercept = polyfit(runElecHeatLoads, runSlopes, 1)
polyfit(xs, ys) == polyfitLine(xs, ys)

\* one iteration of the first loop of processRuns: the fit of run number idx
processRuns ==
    /\ pc = "regress"
    /\ idx < Len(dataRuns)
    /\ LET run == dataRuns[idx + 1]
       IN  IF linregressRaises(runTimes(run), runData(run))
           THEN /\ pc' = "fault"
                /\ UNCHANGED <<dataRuns, idx>>
           ELSE /\ dataRuns' = [dataRuns EXCEPT ![idx + 1].slope =
                                    linregressSlope(runTimes(run), runData(run))]
                /\ idx' = IF idx + 1 = Len(dataRuns) THEN 0 ELSE idx + 1
                /\ pc' = IF idx + 1 < Len(dataRuns) THEN "regress"
                         ELSE IF kind = "calib" THEN "calibFit" ELSE "plot"
    /\ invoked' = invoked \cup {"processRuns"}
    /\ UNCHANGED <<auxVars, q0Vars, cacheVars, dsPressBuff, hasPressCol>>
    /\ UNCHANGED <<kind, csvRows, refValvePos, refHeatLoad, unixTimeBuff,
                   dsLevelBuff, valvePosBuff, elecHeatDesBuff, elecHeatActBuff,
                   gradBuff, calibSlope, heatAdjustment, runStartIdx, emitted>>

\* the heater calibration fit that ends DataSession.processRuns:
\* heatAdjustment = -xIntercept = yIntercept / calibSlope.  The fit is done on
\* the heat loads without the old heatAdjustment h, which shifts every x by h:
\* the slope is the same and yIntercept / slope is smaller by h.
calibFit ==
    /\ pc = "calibFit"
    /\ LET xs == [i \in 1..Len(dataRuns) |-> elecHeatLoadRaw(dataRuns[i])]
           ys == [i \in 1..Len(dataRuns) |-> dataRuns[i].slope]
           fit == polyfit(xs, ys)
       IN  /\ calibSlope' = IF IsRat(heatAdjustment) THEN fit.slope ELSE NaN
           /\ heatAdjustment' =
                 IF fit.slope = RankDeficient /\ IsRat(heatAdjustment)
                 THEN RankDeficient
                 ELSE RatSub(RatDiv(fit.intercept, fit.slope), heatAdjustment)
    /\ pc' = "plot"
    /\ UNCHANGED <<auxVars, q0Vars, cacheVars, dsPressBuff, hasPressCol>>
    /\ UNCHANGED <<kind, csvRows, refValvePos, refHeatLoad, unixTimeBuff,
                   dsLevelBuff, valvePosBuff, elecHeatDesBuff, elecHeatActBuff,
                   gradBuff, dataRuns, idx, runStartIdx, invoked, emitted>>

plotAndFitData ==
    /\ pc = "plot"
    /\ invoked' = invoked \cup {"plotAndFitData"}
    /\ pc' = "done"
    /\ UNCHANGED <<auxVars, q0Vars, cacheVars, dsPressBuff, hasPressCol>>
    /\ UNCHANGED <<kind, csvRows, refValvePos, refHeatLoad, unixTimeBuff,
                   dsLevelBuff, valvePosBuff, elecHeatDesBuff, elecHeatActBuff,
                   gradBuff, dataRuns, calibSlope, heatAdjustment, idx,
                   runStartIdx, emitted>>

(***************************************************************************)
(* The parts of the state a specification leaves alone                     *)
(***************************************************************************)
Q0Idle ==
    /\ q0Run = [startIdx |-> 0, endIdx |-> 0, elecHeatLoadDes |-> 0,
                rfHeatLoad |-> 0]
    /\ refGradVal = NominalGrad
    /\ q0pc = "idle"
    /\ q0Idx = 0
    /\ q0s = <<>>
    /\ numInvalidGrads = 0
    /\ q0Result = [tag |-> "None", samples |-> <<>>]

FilesIdle == fileSessions = <<>>

HeatIdle ==
    /\ q0CalibSession = [calibSlope |-> Unset]
    /\ report = <<>>

NoFile == [exists |-> FALSE, header |-> <<>>, rows |-> <<>>]

\* parseRawData returning nothing
NoArchive == [available |-> FALSE, header |-> <<>>, rows |-> <<>>]

GenIdle ==
    /\ archive = NoArchive
    /\ sessionFile = NoFile
    /\ genResult = "idle"

Containers == {"CM", "CAV1", "CAV2"}

\* self.dataSessions = {} in every Container
EmptyCaches == [c \in Containers |-> <<>>]

NoFamilyCall == [container |-> "none", sessionHash |-> None]

FamilyIdle ==
    /\ caches = EmptyCaches
    /\ familyCalls = 0
    /\ familyLast = NoFamilyCall

NoPass ==
    [unixTimeBuff |-> <<>>, dsLevelBuff |-> <<>>, valvePosBuff |-> <<>>,
     elecHeatDesBuff |-> <<>>, elecHeatActBuff |-> <<>>, gradBuff |-> <<>>,
     dsPressBuff |-> <<>>, dataRuns |-> <<>>]

RerunIdle ==
    /\ passes = 1
    /\ firstPass = NoPass

LaterIdle ==
    /\ GenIdle
    /\ FamilyIdle
    /\ RerunIdle

CacheIdle ==
    /\ container = "CM"
    /\ dataSessions = <<>>
    /\ genCalls = <<>>
    /\ nCalls = 0
    /\ lastCall = <<>>
    /\ returned = <<>>


(***************************************************************************)
(* processData on a freshly constructed session                            *)
(***************************************************************************)
Init ==
    /\ kind \in {"calib", "q0"}
    /\ csvRows \in SeqsUpTo(RowsOf(kind), MaxRows)
    /\ refValvePos = RefValve
    /\ refHeatLoad = 1
    /\ unixTimeBuff = <<>>
    /\ dsLevelBuff = <<>>
    /\ valvePosBuff = <<>>
    /\ elecHeatDesBuff = <<>>
    /\ elecHeatActBuff = <<>>
    /\ gradBuff = <<>>
    /\ dataRuns = <<>>
    /\ calibSlope = Unset
    /\ heatAdjustment = Rat(0, 1)
    /\ pc = "parse"
    /\ idx = 0
    /\ runStartIdx = 0
    /\ invoked = {}
    /\ emitted = <<>>
    /\ dsPressBuff = <<>>
    /\ hasPressCol \in (IF kind = "q0" THEN BOOLEAN ELSE {TRUE})
    /\ Q0Idle
    /\ CacheIdle
    /\ FilesIdle
    /\ HeatIdle
    /\ LaterIdle

Next ==
    \/ parseDataFromCSV
    \/ populateRuns
    \/ checkRuns
    \/ adjustForSettle
    \/ processRuns
    \/ calibFit
    \/ plotAndFitData

Spec == Init /\ [][Next]_vars

(***************************************************************************)
(* The segmentation scenario: samples 1 s apart, one heater setpoint step  *)
(* at index StepIdx, a downstream level below the floor at index           *)
(* BreachIdx, and nothing else out of the ordinary.  The file ends at      *)
(* BreachIdx or goes on for TailLen more samples, with the level back      *)
(* above the floor or staying below it.                                    *)
(***************************************************************************)
StepIdx == 100
BreachIdx == 500
TailLen == 60

ScenarioRow(i, desBefore, desAfter, lowAfter) ==
    LET des == IF i < StepIdx THEN desBefore ELSE desAfter
        lvl == IF i = BreachIdx \/ (lowAfter /\ i > BreachIdx)
               THEN MIN_DS_LL - 1 ELSE MIN_DS_LL + 1
    IN  Row(1, lvl, RefValve, des, des, NominalGrad)

ScenarioFile(n, desBefore, desAfter, lowAfter) ==
    [j \in 1..n |-> ScenarioRow(j - 1, desBefore, desAfter, lowAfter)]

ScenarioInit ==
    /\ kind \in {"calib", "q0"}
    /\ \E n \in {BreachIdx + 1, BreachIdx + 1 + TailLen} :
       \E d \in {<<1, 2>>, <<2, 1>>} :
       \E lowAfter \in BOOLEAN :
           csvRows = ScenarioFile(n, d[1], d[2], lowAfter)
    /\ refValvePos = RefValve
    /\ refHeatLoad = 1
    /\ unixTimeBuff = <<>>
    /\ dsLevelBuff = <<>>
    /\ valvePosBuff = <<>>
    /\ elecHeatDesBuff = <<>>
    /\ elecHeatActBuff = <<>>
    /\ gradBuff = <<>>
    /\ dataRuns = <<>>
    /\ calibSlope = Unset
    /\ heatAdjustment = Rat(0, 1)
    /\ pc = "parse"
    /\ idx = 0
    /\ runStartIdx = 0
    /\ invoked = {}
    /\ emitted = <<>>
    /\ dsPressBuff = <<>>
    /\ hasPressCol = TRUE
    /\ Q0Idle
    /\ CacheIdle
    /\ FilesIdle
    /\ HeatIdle
    /\ LaterIdle

ScenarioNext ==
    \/ parseDataFromCSV
    \/ populateRuns

SpecScenario == ScenarioInit /\ [][ScenarioNext]_vars

(***************************************************************************)
(* Properties of the processData pipeline                                  *)
(***************************************************************************)
RunIdx(runs) == 1..Len(runs)

\* C2, as stated: every run emitted by segmentation lasts at least
\* MIN_RUN_DURATION between the samples at its own start and end indices.
C2_MinDurationOwnIndices ==
    \A i \in RunIdx(emitted) :
        At(unixTimeBuff, emitted[i].endIdx) - At(unixTimeBuff, emitted[i].startIdx)
            >= MIN_RUN_DURATION

\* C2, amended: every run emitted by segmentation lasts at least
\* MIN_RUN_DURATION between the sample at its start index and the sample of
\* the break that ended it, the one after its end index.
C2_MinDurationToBreak ==
    \A i \in RunIdx(emitted) :
        At(unixTimeBuff, emitted[i].endIdx + 1)
            - At(unixTimeBuff, emitted[i].startIdx) >= MIN_RUN_DURATION

\* a run was emitted whose time to its break is exactly the threshold
C2_Witness ==
    \E i \in RunIdx(emitted) :
        At(unixTimeBuff, emitted[i].endIdx + 1)
            - At(unixTimeBuff, emitted[i].startIdx) = MIN_RUN_DURATION

\* C3: adjacent runs of the run list do not overlap, run[i].endIdx <
\* run[i+1].startIdx, after segmentation (emitted) and after trimming (dataRuns).
C3_NonOverlap ==
    /\ \A i \in 1..(Len(emitted) - 1) : emitted[i].endIdx < emitted[i + 1].startIdx
    /\ \A i \in 1..(Len(dataRuns) - 1) :
           dataRuns[i].endIdx < dataRuns[i + 1].startIdx

\* two runs, and trimming has moved the start of the second one
C3_Witness ==
    /\ Len(dataRuns) = 2
    /\ pc = "regress"
    /\ dataRuns[2].startIdx > emitted[2].startIdx

\* C4, as stated: after trimming, the start index of a run is at least its
\* original start index and at most its end index.
C4_TrimWithinRun ==
    \A i \in RunIdx(dataRuns) :
        /\ emitted[i].startIdx <= dataRuns[i].startIdx
        /\ dataRuns[i].startIdx <= dataRuns[i].endIdx

\* C6: once segmentation has ended with no run, processData has returned or is
\* about to: no later step was entered, calibSlope is None, heatAdjustment is 0.
C6_NoRunsHalts ==
    (dataRuns = <<>> /\ pc \notin {"parse", "populate", "fault"}) =>
        /\ pc \in {"checkRuns", "done"}
        /\ invoked = {}
        /\ calibSlope = Unset
        /\ heatAdjustment = Rat(0, 1)

\* processData returned on a session with samples and no run
C6_Witness ==
    /\ pc = "done"
    /\ dataRuns = <<>>
    /\ Len(elecHeatDesBuff) > 1

\* the break indices of the loaded buffers
BreakIndices == { i \in 0..(Len(elecHeatDesBuff) - 1) : isEndOfRun(i) }

\* C5: when the only breaks are the heater step at StepIdx and the level
\* breach at BreachIdx, segmentation emits exactly the runs
\* [0, StepIdx - 1] and [StepIdx, BreachIdx - 1].
C5_ScenarioRuns ==
    (pc = "checkRuns" /\ BreakIndices = {StepIdx, BreachIdx}) =>
        dataRuns = <<NewRun(0, StepIdx - 1), NewRun(StepIdx, BreachIdx - 1)>>

C5_Witness ==
    /\ pc = "checkRuns"
    /\ BreakIndices = {StepIdx, BreachIdx}
    /\ Len(dataRuns) = 2

(***************************************************************************)
(* Q0 derivation: Q0DataRun.calcQ0 and the q0 property.                    *)
(* Q0 values are rationals in units of 10^12:                              *)
(*   (grad * 10^6)^2 / (939.3 * rf) = (10 grad^2 / (9393 rf)) * 10^12      *)
(***************************************************************************)
Q0_DEN == 9393

\* the ratio of uncorrectedQ0 inverted: heat load over squared gradient
uncorrectedQ0Inverted(grad, rfHeatLoad) ==
    IF grad = 0 THEN NaN ELSE Norm(Q0_DEN * rfHeatLoad, 10 * grad * grad)

\* uncorrectedQ0 of calcQ0, for rfHeatLoad # 0
uncorrectedQ0(grad, rfHeatLoad) ==
    Norm(10 * grad * grad, Q0_DEN * rfHeatLoad)

\* Python's truth value of a number or None
Truthy(x) == x # None /\ x # 0

\* calcQ0: the uncorrected value, and whether the helium temperature
\* correction was applied to it (the corrected value is a fixed function of
\* unc, grad and press)
calcQ0(grad, rfHeatLoad, avgPressure) ==
    [grad |-> grad,
     unc |-> uncorrectedQ0(grad, rfHeatLoad),
     corrected |-> Truthy(avgPressure),
     press |-> avgPressure]

\* a division by a zero heat load: a numpy float gives inf
InfSample(grad, avgPressure) ==
    [grad |-> grad, unc |-> NaN, corrected |-> Truthy(avgPressure),
     press |-> avgPressure]

RECURSIVE CountZeros(_)
CountZeros(buff) ==
    IF buff = <<>> THEN 0
    ELSE (IF Head(buff) = 0 THEN 1 ELSE 0) + CountZeros(Tail(buff))

Q0Returned(tag, samples) == [tag |-> tag, samples |-> samples]

\* q0 up to the loop: None for a heater run, else the count of zero gradients
q0Begin ==
    /\ q0pc = "ready"
    /\ IF q0Run.elecHeatLoadDes # 0
       THEN /\ q0Result' = Q0Returned("None", <<>>)
            /\ q0pc' = "done"
            /\ UNCHANGED <<q0Idx, q0s, numInvalidGrads>>
       ELSE /\ numInvalidGrads' = CountZeros(gradBuff)
            /\ q0s' = <<>>
            /\ q0Idx' = q0Run.startIdx
            /\ q0pc' = "loop"
            /\ UNCHANGED q0Result
    /\ UNCHANGED <<auxVars, q0Run, refGradVal, sessVars, cacheVars>>

\* one iteration of: for idx in range(self.startIdx, self.endIdx)
q0Sample ==
    /\ q0pc = "loop"
    /\ q0Idx < q0Run.endIdx
    /\ LET archiveGrad == At(gradBuff, q0Idx)
           grad == IF Truthy(archiveGrad) THEN archiveGrad ELSE refGradVal
       IN  IF q0Idx >= Len(dsPressBuff)
           THEN \* self.dataSession.dsPressBuff[idx] raises IndexError
                /\ q0pc' = "fault"
                /\ UNCHANGED <<q0s, q0Idx>>
           ELSE IF q0Run.rfHeatLoad = 0
           THEN \* a zero heat load: ZeroDivisionError from a Python float,
                \* inf from a numpy float
                \E outcome \in {"fault", "loop"} :
                    /\ q0pc' = outcome
                    /\ q0s' = IF outcome = "loop"
                              THEN Append(q0s, InfSample(grad, At(dsPressBuff, q0Idx)))
                              ELSE q0s
                    /\ q0Idx' = IF outcome = "loop" THEN q0Idx + 1 ELSE q0Idx
           ELSE /\ q0s' = Append(q0s, calcQ0(grad, q0Run.rfHeatLoad,
                                             At(dsPressBuff, q0Idx)))
                /\ q0Idx' = q0Idx + 1
                /\ q0pc' = "loop"
    /\ UNCHANGED <<auxVars, q0Run, refGradVal, numInvalidGrads, q0Result, sessVars,
                   cacheVars>>

\* self._calculatedQ0 = mean(q0s); the mean of no sample is nan
q0Return ==
    /\ q0pc = "loop"
    /\ q0Idx >= q0Run.endIdx
    /\ q0Result' = Q0Returned(IF q0s = <<>> THEN "nan" ELSE "number", q0s)
    /\ q0pc' = "done"
    /\ UNCHANGED <<auxVars, q0Run, refGradVal, q0Idx, q0s, numInvalidGrads, sessVars,
                   cacheVars>>

(***************************************************************************)
(* q0 on a run of a loaded Q0 session.  Segmentation never puts the last   *)
(* index in a run, and trimming can leave the start anywhere below the     *)
(* end of the buffers.                                                     *)
(***************************************************************************)
MaxQ0Len == 4
RefGrad == 8

Q0Grads == {-4, 0, 4}
Q0Pressures == {NominalPress, Malformed}
RfHeatLoads == {-1, 0, 1, 2}

Q0FileRow(g, p) ==
    [Row(25, MIN_DS_LL + 1, RefValve, 1, 1, g) EXCEPT !.press = p]

Q0Files ==
    UNION { { [i \in 1..n |-> Q0FileRow(gs[i], p)] :
                gs \in [1..n -> Q0Grads], p \in Q0Pressures } :
            n \in 2..MaxQ0Len }

Q0Init ==
    /\ kind = "q0"
    /\ csvRows \in Q0Files
    /\ hasPressCol \in BOOLEAN
    /\ gradBuff = parseLinked(<<>>, csvRows, "grad", TRUE)
    /\ dsPressBuff = parseLinked(<<>>, csvRows, "press", hasPressCol)
    /\ unixTimeBuff = parseTimes(csvRows, 0)
    /\ dsLevelBuff = parseColumn(csvRows, "lvl")
    /\ valvePosBuff = parseColumn(csvRows, "valve")
    /\ elecHeatDesBuff = parseColumn(csvRows, "des")
    /\ elecHeatActBuff = parseColumn(csvRows, "act")
    /\ refValvePos = RefValve
    /\ refHeatLoad = 1
    /\ dataRuns = <<>>
    /\ calibSlope = Unset
    /\ heatAdjustment = Rat(0, 1)
    /\ pc = "done"
    /\ idx = 0
    /\ runStartIdx = 0
    /\ invoked = {}
    /\ emitted = <<>>
    /\ \E s \in 0..(Len(csvRows) - 1), e \in 0..(Len(csvRows) - 2),
          des \in {0, 1}, rf \in RfHeatLoads :
           /\ des # 0 => rf = 0
           /\ q0Run = [startIdx |-> s, endIdx |-> e, elecHeatLoadDes |-> des,
                       rfHeatLoad |-> rf]
    /\ refGradVal = RefGrad
    /\ q0pc = "ready"
    /\ q0Idx = 0
    /\ q0s = <<>>
    /\ numInvalidGrads = 0
    /\ q0Result = Q0Returned("None", <<>>)
    /\ CacheIdle
    /\ FilesIdle
    /\ HeatIdle
    /\ LaterIdle

Q0Next ==
    \/ q0Begin
    \/ q0Sample
    \/ q0Return

SpecQ0 == Q0Init /\ [][Q0Next]_vars

(***************************************************************************)
(* Properties of the Q0 derivation                                         *)
(***************************************************************************)
Q0Ended == q0pc \in {"done", "fault"}

NonHeaterRun == q0Run.elecHeatLoadDes = 0

\* C7: q0 of a non-heater run whose RF heat load is <= 0 raises nothing and
\* returns no number: the Q0 is reported as absent.  (Stated for sessions
\* that have the pressure channel.)
C7_NoQ0WithoutRfHeat ==
    (Q0Ended /\ NonHeaterRun /\ q0Run.rfHeatLoad <= 0 /\ dsPressBuff # <<>>) =>
        /\ q0pc = "done"
        /\ q0Result.tag = "None"

\* C8: when every gradient sample of the run is zero, each Q0 of the run is
\* computed with the reference gradient and the reported count of invalid
\* gradients is the number of samples of the run (the samples q0 went
\* through, or those of the index range with its end index).
C8_AllZeroGradients ==
    (q0pc = "done" /\ NonHeaterRun /\ q0Run.startIdx <= q0Run.endIdx
     /\ \A j \in q0Run.startIdx..q0Run.endIdx : At(gradBuff, j) = 0) =>
        /\ \A k \in 1..Len(q0s) : q0s[k].grad = refGradVal
        /\ numInvalidGrads \in {Len(q0s), q0Run.endIdx - q0Run.startIdx + 1}

\* C9: in a session without the pressure channel, q0 of a non-heater run
\* (with a positive RF heat load) ends without an error and every sample is
\* the uncorrected value.
C9_NoPressureChannel ==
    (Q0Ended /\ NonHeaterRun /\ q0Run.rfHeatLoad > 0 /\ dsPressBuff = <<>>) =>
        /\ q0pc = "done"
        /\ \A k \in 1..Len(q0s) :
               /\ ~q0s[k].corrected
               /\ q0s[k].unc = uncorrectedQ0(q0s[k].grad, q0Run.rfHeatLoad)

\* C10, as stated: for the run's RF heat load (not zero), any two gradients
\* g1 < g2 passed to calcQ0 give uncorrectedQ0(g1) < uncorrectedQ0(g2).
C10_Q0MonotoneInGradient ==
    q0Run.rfHeatLoad # 0 =>
        \A i, j \in 1..Len(q0s) :
            q0s[i].grad < q0s[j].grad => RatLess(q0s[i].unc, q0s[j].unc)

\* C10, amended: for a positive RF heat load, any two gradients
\* 0 <= g1 < g2 passed to calcQ0 give uncorrectedQ0(g1) < uncorrectedQ0(g2).
C10_Q0MonotoneForPositive ==
    q0Run.rfHeatLoad > 0 =>
        \A i, j \in 1..Len(q0s) :
            (0 <= q0s[i].grad /\ q0s[i].grad < q0s[j].grad) =>
                RatLess(q0s[i].unc, q0s[j].unc)

\* two samples of one run computed from gradients 0 <= g1 < g2
C10_Witness ==
    /\ q0Run.rfHeatLoad > 0
    /\ \E i, j \in 1..Len(q0s) : 0 <= q0s[i].grad /\ q0s[i].grad < q0s[j].grad

(***************************************************************************)
(* The session cache of a Container: hash and addDataSession.              *)
(* Times are integers (seconds) and hash to themselves, as Python's small  *)
(* integers and whole floats do.                                           *)
(***************************************************************************)
RECURSIVE Xor(_, _)
Xor(a, b) ==
    IF a = 0 THEN b
    ELSE IF b = 0 THEN a
    ELSE (((a % 2) + (b % 2)) % 2) + 2 * Xor(a \div 2, b \div 2)

\* Python's hash(None): one fixed value of the process
HashNone == 64

hash(x) == IF x = None THEN HashNone ELSE x

\* DataSession.hash
DataSessionHash(startTime, endTime, timeInt, slacNum, jlabNum) ==
    Xor(Xor(Xor(Xor(hash(startTime), hash(endTime)), hash(timeInt)),
            hash(slacNum)), hash(jlabNum))

\* Q0DataSession.hash
Q0DataSessionHash(startTime, endTime, timeInt, slacNum, jlabNum, calibSession, refGrad) ==
    Xor(Xor(DataSessionHash(startTime, endTime, timeInt, slacNum, jlabNum),
            hash(calibSession)), hash(refGrad))

\* Cryomodule(cryModNumSLAC=12, cryModNumJLAB=2)
cryModNumSLAC == 12
cryModNumJLAB == 2

\* Cryomodule.hash / Cavity.hash
containerHash(c, startTime, endTime, timeInt, calibSession, refGrad) ==
    IF c = "CM"
    THEN DataSessionHash(startTime, endTime, timeInt, cryModNumSLAC,
                         cryModNumJLAB)
    ELSE Q0DataSessionHash(startTime, endTime, timeInt, cryModNumSLAC,
                           cryModNumJLAB, calibSession, refGrad)

\* genDataSession: a new session object (serial) holding the parameters
genDataSession(serial, startTime, endTime, timeInt, valvePos, heatLoad, refGrad, calibSession) ==
    [serial |-> serial, startTime |-> startTime, endTime |-> endTime,
     timeInt |-> timeInt, refValvePos |-> valvePos, refHeatLoad |-> heatLoad,
     refGradVal |-> refGrad, calibSession |-> calibSession]

\* a cache that stores the new session whether or not the hash is present
storeAlways(sessions, sessionHash, session) ==
    [k \in DOMAIN sessions \cup {sessionHash} |->
        IF k = sessionHash THEN session ELSE sessions[k]]

\* if sessionHash not in self.dataSessions: self.dataSessions[sessionHash] = session
storeIfAbsent(sessions, sessionHash, session) ==
    IF sessionHash \in DOMAIN sessions
    THEN sessions
    ELSE [k \in DOMAIN sessions \cup {sessionHash} |->
            IF k = sessionHash THEN session ELSE sessions[k]]

MaxCalls == 2

Times == {1, 2}
TimeInts == {1, 2}
ValvePositions == {RefValve, RefValve + 1}
HeatLoadArgs == {None, 1}
\* what the sum of the eight heater readbacks can be when it is read
HeaterReadbacks == {0, 2}
\* the calibration session passed to a Cavity, by its hash
CalibSessionArgs == {DataSessionHash(1, 2, 1, 12, 2)}
RefGradArgs == {NominalGrad, RefGrad}

NoCall == [sessionHash |-> None, hit |-> FALSE, refValvePos |-> None,
           refHeatLoad |-> None, startTime |-> None, endTime |-> None,
           timeInt |-> None, calibSession |-> None, refGradVal |-> None]

NoSession == genDataSession(0, None, None, None, None, None, None, None)

addDataSession ==
    /\ nCalls < MaxCalls
    /\ \E startTime \in Times, endTime \in Times, timeInt \in TimeInts,
          valvePos \in ValvePositions, heatLoadArg \in HeatLoadArgs,
          readback \in HeaterReadbacks,
          calibSession \in CalibSessionArgs \cup {None},
          refGrad \in RefGradArgs \cup {None} :
        \* a Cryomodule session has neither calibSession nor refGradVal
        /\ (container = "CM") = (calibSession = None)
        /\ (container = "CM") = (refGrad = None)
        \* the readbacks are read only if not refHeatLoad
        /\ Truthy(heatLoadArg) => readback = 0
        /\ LET heatLoad == IF Truthy(heatLoadArg) THEN heatLoadArg
                           ELSE readback
               sessionHash == containerHash(container, startTime, endTime,
                                            timeInt, calibSession, refGrad)
               session == genDataSession(nCalls + 1, startTime, endTime,
                                         timeInt, valvePos, heatLoad, refGrad,
                                         calibSession)
               stored == storeIfAbsent(dataSessions, sessionHash, session)
           IN  /\ dataSessions' = stored
               /\ genCalls' =
                    [k \in DOMAIN stored |->
                        (IF k \in DOMAIN genCalls THEN genCalls[k] ELSE 0)
                        + (IF k = sessionHash /\ stored[k] = session
                           THEN 1 ELSE 0)]
               /\ lastCall' = [sessionHash |-> sessionHash,
                               hit |-> sessionHash \in DOMAIN dataSessions,
                               refValvePos |-> valvePos,
                               refHeatLoad |-> heatLoad,
                               startTime |-> startTime, endTime |-> endTime,
                               timeInt |-> timeInt,
                               calibSession |-> calibSession,
                               refGradVal |-> refGrad]
               /\ returned' = stored[sessionHash]
               /\ nCalls' = nCalls + 1
    /\ UNCHANGED <<auxVars, container, sessVars, q0Vars>>

CacheInit ==
    /\ container \in {"CM", "CAV"}
    /\ dataSessions = <<>>
    /\ genCalls = <<>>
    /\ nCalls = 0
    /\ lastCall = NoCall
    /\ returned = NoSession
    /\ kind = IF container = "CM" THEN "calib" ELSE "q0"
    /\ csvRows = <<>>
    /\ hasPressCol = TRUE
    /\ gradBuff = <<>>
    /\ dsPressBuff = <<>>
    /\ unixTimeBuff = <<>>
    /\ dsLevelBuff = <<>>
    /\ valvePosBuff = <<>>
    /\ elecHeatDesBuff = <<>>
    /\ elecHeatActBuff = <<>>
    /\ refValvePos = RefValve
    /\ refHeatLoad = 1
    /\ dataRuns = <<>>
    /\ calibSlope = Unset
    /\ heatAdjustment = Rat(0, 1)
    /\ pc = "parse"
    /\ idx = 0
    /\ runStartIdx = 0
    /\ invoked = {}
    /\ emitted = <<>>
    /\ Q0Idle
    /\ FilesIdle
    /\ HeatIdle
    /\ LaterIdle

CacheNext == addDataSession

SpecCache == CacheInit /\ [][CacheNext]_vars

\* C1: along any sequence of addDataSession calls on one Container, a hash
\* present in dataSessions stays mapped to the same session object, a call
\* with a hash already present returns that stored session, and
\* genDataSession is called at most once per hash.
C1_CacheIdempotent ==
    /\ [][\A k \in DOMAIN dataSessions :
            /\ k \in DOMAIN dataSessions'
            /\ dataSessions'[k] = dataSessions[k]
            /\ (nCalls' = nCalls + 1 /\ lastCall'.sessionHash = k) =>
                   returned' = dataSessions[k]]_vars
    /\ [](\A k \in DOMAIN genCalls : genCalls[k] <= 1)

\* a call whose hash was present, passing another valve position and heat
\* load than the stored session has, got the stored session back
C1_Witness ==
    /\ lastCall.hit
    /\ returned = dataSessions[lastCall.sessionHash]
    /\ returned.refValvePos # lastCall.refValvePos
    /\ returned.refHeatLoad # lastCall.refHeatLoad

(***************************************************************************)
(* The buffer loader on files whose numeric cells are well-formed or       *)
(* malformed in any combination.  unixTimeBuff stands for timeBuff too:    *)
(* the loader appends to both in the same step of the row loop.            *)
(***************************************************************************)
MaxParseRows == 2

Columns == {"lvl", "valve", "des", "act", "grad", "press"}

CellsOf(col) ==
    {Malformed} \cup
    (CASE col = "lvl" -> {MIN_DS_LL + 1}
       [] col = "valve" -> {RefValve}
       [] col = "grad" -> {NominalGrad}
       [] col = "press" -> {NominalPress}
       [] OTHER -> {1})

ParseRows ==
    { [dt |-> 25, lvl |-> l, valve |-> v, des |-> d, act |-> a, grad |-> g,
       press |-> p] :
        l \in CellsOf("lvl"), v \in CellsOf("valve"), d \in CellsOf("des"),
        a \in CellsOf("act"), g \in CellsOf("grad"), p \in CellsOf("press") }

\* the columns linkBuffToColumn bound to a buffer of this session
BoundColumns ==
    {"lvl", "valve", "des", "act"}
    \cup (IF kind = "q0" THEN {"grad"} ELSE {})
    \cup (IF kind = "q0" /\ hasPressCol THEN {"press"} ELSE {})

BufferOf(col) ==
    CASE col = "lvl" -> dsLevelBuff
      [] col = "valve" -> valvePosBuff
      [] col = "des" -> elecHeatDesBuff
      [] col = "act" -> elecHeatActBuff
      [] col = "grad" -> gradBuff
      [] OTHER -> dsPressBuff

ParseInit ==
    /\ kind \in {"calib", "q0"}
    /\ csvRows \in SeqsUpTo(ParseRows, MaxParseRows)
    /\ hasPressCol \in (IF kind = "q0" THEN BOOLEAN ELSE {TRUE})
    /\ refValvePos = RefValve
    /\ refHeatLoad = 1
    /\ unixTimeBuff = <<>>
    /\ dsLevelBuff = <<>>
    /\ valvePosBuff = <<>>
    /\ elecHeatDesBuff = <<>>
    /\ elecHeatActBuff = <<>>
    /\ gradBuff = <<>>
    /\ dsPressBuff = <<>>
    /\ dataRuns = <<>>
    /\ calibSlope = Unset
    /\ heatAdjustment = Rat(0, 1)
    /\ pc = "parse"
    /\ idx = 0
    /\ runStartIdx = 0
    /\ invoked = {}
    /\ emitted = <<>>
    /\ Q0Idle
    /\ CacheIdle
    /\ FilesIdle
    /\ HeatIdle
    /\ LaterIdle

ParseNext == parseDataFromCSV

SpecParse == ParseInit /\ [][ParseNext]_vars

MaxFileSessions == 2

FileTimes == {0, 30, 60}
FileTimeInts == {1, 4}
\* 0 stands for the Cryomodule itself, 1 for one of its Cavities
FileContainers == {0, 1}

NoName == [prefix |-> "None", cm |-> 0, cavityNum |-> 0, start |-> 0,
           nPoints |-> 0]

NewFileSession(c, startTime, endTime, timeInt) ==
    [cavNum |-> c, startTime |-> startTime, endTime |-> endTime,
     timeInt |-> timeInt, numPointsField |-> None, dataFileName |-> NoName]

\* the point count taken as the number of sample instants, both ends counted
numPointsInclusive(sess) ==
    IF Truthy(sess.numPointsField) THEN sess.numPointsField
    ELSE TruncDiv(sess.endTime - sess.startTime, sess.timeInt) + 1

\* numPoints: int((endTime - startTime).total_seconds() / timeInt), cached
\* in _numPoints unless that is None or 0
numPoints(sess) ==
    IF Truthy(sess.numPointsField) THEN sess.numPointsField
    ELSE TruncDiv(sess.endTime - sess.startTime, sess.timeInt)

\* startTime.strftime("_%Y-%m-%d--%H-%M_")
strftimeMinute(t) == t \div 60

\* fileName of DataSession (a Cryomodule's) and of Q0DataSession (a Cavity's)
fileName(sess) ==
    IF sess.dataFileName # NoName THEN sess.dataFileName
    ELSE [prefix |-> IF sess.cavNum = 0 THEN "calib" ELSE "q0meas",
          cm |-> cryModNumSLAC,
          cavityNum |-> sess.cavNum,
          start |-> strftimeMinute(sess.startTime),
          nPoints |-> numPoints(sess)]

\* reading the numPoints property of a session
getNumPoints ==
    /\ \E i \in 1..Len(fileSessions) :
           fileSessions' =
               [fileSessions EXCEPT ![i].numPointsField = numPoints(fileSessions[i])]
    /\ UNCHANGED <<sessVars, q0Vars, cacheVars, q0CalibSession, report, laterVars>>

\* reading the fileName property of a session
getFileName ==
    /\ \E i \in 1..Len(fileSessions) :
           fileSessions' =
               [fileSessions EXCEPT
                   ![i].numPointsField =
                       IF fileSessions[i].dataFileName # NoName
                       THEN fileSessions[i].numPointsField
                       ELSE numPoints(fileSessions[i]),
                   ![i].dataFileName = fileName(fileSessions[i])]
    /\ UNCHANGED <<sessVars, q0Vars, cacheVars, q0CalibSession, report, laterVars>>

FileInit ==
    /\ fileSessions \in
          [1..MaxFileSessions ->
              { NewFileSession(c, st, en, ti) :
                  c \in FileContainers, st \in FileTimes, en \in FileTimes,
                  ti \in FileTimeInts }]
    /\ kind = "calib"
    /\ csvRows = <<>>
    /\ hasPressCol = TRUE
    /\ refValvePos = RefValve
    /\ refHeatLoad = 1
    /\ unixTimeBuff = <<>>
    /\ dsLevelBuff = <<>>
    /\ valvePosBuff = <<>>
    /\ elecHeatDesBuff = <<>>
    /\ elecHeatActBuff = <<>>
    /\ gradBuff = <<>>
    /\ dsPressBuff = <<>>
    /\ dataRuns = <<>>
    /\ calibSlope = Unset
    /\ heatAdjustment = Rat(0, 1)
    /\ pc = "parse"
    /\ idx = 0
    /\ runStartIdx = 0
    /\ invoked = {}
    /\ emitted = <<>>
    /\ Q0Idle
    /\ CacheIdle
    /\ HeatIdle
    /\ LaterIdle

FileNext ==
    \/ getNumPoints
    \/ getFileName

SpecFile == FileInit /\ [][FileNext]_vars

SameRequest(a, b) ==
    /\ a.cavNum = b.cavNum
    /\ a.startTime = b.startTime
    /\ a.endTime = b.endTime
    /\ a.timeInt = b.timeInt

MaxFitRuns == 3
RunRows == 4

FitSetpoints == {0, 1, 2}
LevelSteps == {0, 1, 2}

FitRunOf(i, k) == IF (i - 1) \div RunRows >= k THEN k ELSE (i - 1) \div RunRows + 1

FitRow(i, k, setpoints, steps) ==
    LET r == FitRunOf(i, k)
        j == (i - 1) - (r - 1) * RunRows
    IN  Row(50, MIN_DS_LL + 10 - steps[r] * j, RefValve, setpoints[r],
            setpoints[r], NominalGrad)

FitFiles ==
    UNION { { [i \in 1..(k * RunRows + 1) |-> FitRow(i, k, setpoints, steps)] :
                setpoints \in { f \in [1..k -> FitSetpoints] :
                                    \A r \in 1..(k - 1) : f[r] # f[r + 1] },
                steps \in [1..k -> LevelSteps] } :
            k \in 2..MaxFitRuns }

FitInit ==
    /\ kind = "calib"
    /\ csvRows \in FitFiles
    /\ hasPressCol = TRUE
    /\ refValvePos = RefValve
    /\ refHeatLoad \in {0, 1}
    /\ unixTimeBuff = <<>>
    /\ dsLevelBuff = <<>>
    /\ valvePosBuff = <<>>
    /\ elecHeatDesBuff = <<>>
    /\ elecHeatActBuff = <<>>
    /\ gradBuff = <<>>
    /\ dsPressBuff = <<>>
    /\ dataRuns = <<>>
    /\ calibSlope = Unset
    /\ heatAdjustment = Rat(0, 1)
    /\ pc = "parse"
    /\ idx = 0
    /\ runStartIdx = 0
    /\ invoked = {}
    /\ emitted = <<>>
    /\ Q0Idle
    /\ CacheIdle
    /\ FilesIdle
    /\ HeatIdle
    /\ LaterIdle

SpecFit == FitInit /\ [][Next]_vars

\* the line through the (heat load, slope) pairs of runs i and j, the heat
\* loads being those the fit used (the heatAdjustment was 0 before it)
LineSlope(i, j) ==
    RatDiv(RatSub(dataRuns[j].slope, dataRuns[i].slope),
           Rat(elecHeatLoadRaw(dataRuns[j]) - elecHeatLoadRaw(dataRuns[i]), 1))

LineIntercept(i, j) ==
    RatSub(dataRuns[i].slope,
           RatMul(LineSlope(i, j), Rat(elecHeatLoadRaw(dataRuns[i]), 1)))

OnLine(r, m, b) ==
    dataRuns[r].slope = RatAdd(RatMul(m, Rat(elecHeatLoadRaw(dataRuns[r]), 1)), b)

AllSlopesFitted == \A r \in RunIdx(dataRuns) : IsRat(dataRuns[r].slope)

\* C13: when the (heat load, slope) pairs of all runs lie on one line
\* y = m x + b with m # 0 and two of the heat loads differ, processRuns ends
\* with calibSlope = m and heatAdjustment = b / m.
C13_CalibrationRoundTrip ==
    (pc \in {"plot", "done"} /\ kind = "calib" /\ AllSlopesFitted) =>
        \A i, j \in RunIdx(dataRuns) :
            (/\ elecHeatLoadRaw(dataRuns[i]) # elecHeatLoadRaw(dataRuns[j])
             /\ LineSlope(i, j) # Rat(0, 1)
             /\ \A r \in RunIdx(dataRuns) :
                    OnLine(r, LineSlope(i, j), LineIntercept(i, j))) =>
                /\ calibSlope = LineSlope(i, j)
                /\ heatAdjustment = RatDiv(LineIntercept(i, j), LineSlope(i, j))

\* three runs at three heat loads on one line with slope and intercept not 0
C13_Witness ==
    /\ pc = "done"
    /\ kind = "calib"
    /\ Len(dataRuns) = 3
    /\ AllSlopesFitted
    /\ elecHeatLoadRaw(dataRuns[1]) # elecHeatLoadRaw(dataRuns[2])
    /\ elecHeatLoadRaw(dataRuns[1]) # elecHeatLoadRaw(dataRuns[3])
    /\ elecHeatLoadRaw(dataRuns[2]) # elecHeatLoadRaw(dataRuns[3])
    /\ LineSlope(1, 2) # Rat(0, 1)
    /\ LineIntercept(1, 2) # Rat(0, 1)
    /\ OnLine(3, LineSlope(1, 2), LineIntercept(1, 2))
    /\ calibSlope = LineSlope(1, 2)

\* a run whose trimmed start index is at or past its end index
Consumed(run) == run.startIdx >= run.endIdx

\* C14: a run that trimming has consumed entirely does not make the
\* regression step fail: processRuns, once entered on a session with such a
\* run, does not end in a fault.
C14_ConsumedRunNoFault ==
    ("processRuns" \in invoked /\ \E r \in RunIdx(dataRuns) : Consumed(dataRuns[r]))
        => pc # "fault"

(***************************************************************************)
(* Properties of the break conditions and of the flush                     *)
(***************************************************************************)
\* a break cause at index i other than the heater readback deviation
OtherBreakCause(i) ==
    \/ heaterChanged(i)
    \/ liqLevelTooLow(i)
    \/ valveOutsideTol(i)
    \/ isLastElement(i)
    \/ (kind = "q0" /\ gradChanged(i))

\* the index populateRuns has just gone through
Scanned == idx - 1

\* C15: at an index with no other break cause, segmentation breaks (the
\* pending start moves to the index) exactly when the heater setpoint and
\* readback differ by more than HEATER_TOLERANCE.
C15_HeaterBreakStrict ==
    (pc = "populate" /\ Scanned >= 1 /\ ~OtherBreakCause(Scanned)) =>
        ((runStartIdx = Scanned) <=>
            Abs(At(elecHeatDesBuff, Scanned) - At(elecHeatActBuff, Scanned))
                > HEATER_TOLERANCE)

\* C16: a step of populateRuns at a break index i moves the pending start to
\* i and appends the run [runStart, i - 1] exactly when unixTime[i] -
\* unixTime[runStart] >= MIN_RUN_DURATION; at any other index it leaves the
\* pending start and the run list as they were.
C16_FlushAtBreak ==
    [][(pc = "populate" /\ pc' # "fault") =>
          IF isEndOfRun(idx)
          THEN /\ runStartIdx' = idx
               /\ dataRuns' =
                    IF At(unixTimeBuff, idx) - At(unixTimeBuff, runStartIdx)
                           >= MIN_RUN_DURATION
                    THEN Append(dataRuns, NewRun(runStartIdx, idx - 1))
                    ELSE dataRuns
          ELSE /\ runStartIdx' = runStartIdx
               /\ dataRuns' = dataRuns]_vars

\* a break has moved the pending start with no run emitted, and a later
\* break has emitted a run from there
C16_Witness ==
    /\ pc = "populate"
    /\ Len(dataRuns) = 1
    /\ dataRuns[1].startIdx > 0
    /\ runStartIdx = dataRuns[1].endIdx + 1

(***************************************************************************)
(* Properties of the settle trimming                                       *)
(***************************************************************************)
\* the indices from s on whose time is at least c after that of s
TrimTargets(s, c) ==
    { k \in s..(Len(unixTimeBuff) - 1) :
        At(unixTimeBuff, k) - At(unixTimeBuff, s) >= c }

SetMin(S) == CHOOSE x \in S : \A y \in S : x <= y

\* the runs adjustForSettle has gone through
TrimmedRuns ==
    IF "processRuns" \in invoked \/ pc \in {"regress", "calibFit", "plot", "done"}
    THEN RunIdx(dataRuns)
    ELSE IF "adjustForSettle" \in invoked \/ pc = "settle" THEN 1..idx
    ELSE {}

\* C17: the first run of a calibration session is trimmed by the cutoff of
\* the absolute difference between the heater setpoint at its start and the
\* reference heat load: its start becomes the first index whose time is at
\* least int(25 * |setpoint - refHeatLoad|) after the original start.
C17_FirstRunAbsoluteStep ==
    (kind = "calib" /\ 1 \in TrimmedRuns) =>
        LET s == emitted[1].startIdx
            c == settleCutoff(Abs(HEAT_DEN * (At(elecHeatDesBuff, s) - refHeatLoad)))
        IN  TrimTargets(s, c) # {} =>
                dataRuns[1].startIdx = SetMin(TrimTargets(s, c))

\* C18: every run adjustForSettle has gone through starts at the first index
\* whose time is at least the cutoff after its original start, the cutoff
\* being that of the heat step the code computes; its end index, and both
\* indices of the runs not gone through yet, are as segmentation left them.
C18_TrimToCutoffOnly ==
    /\ Len(dataRuns) = Len(emitted)
    /\ \A r \in RunIdx(dataRuns) :
           /\ dataRuns[r].endIdx = emitted[r].endIdx
           /\ IF r \in TrimmedRuns
              THEN LET s == emitted[r].startIdx
                       c == settleCutoff(getTotalHeatDelta(dataRuns, s, r - 1))
                   IN  /\ TrimTargets(s, c) # {}
                       /\ dataRuns[r].startIdx = SetMin(TrimTargets(s, c))
              ELSE dataRuns[r].startIdx = emitted[r].startIdx

\* the first run went through with a cutoff of 0 and kept its start, the
\* second one was moved forward
C18_Witness ==
    /\ pc = "regress"
    /\ Len(dataRuns) = 2
    /\ At(elecHeatDesBuff, emitted[1].startIdx) = refHeatLoad
    /\ dataRuns[1].startIdx = emitted[1].startIdx
    /\ dataRuns[2].startIdx > emitted[2].startIdx
    /\ dataRuns[2].endIdx = emitted[2].endIdx

(***************************************************************************)
(* The heat loads of the runs of a Q0 session: processData on a Q0 file    *)
(* made of steady runs, then printReport, which reads totalHeatLoad,       *)
(* elecHeatLoad, rfHeatLoad and q0 of every run in turn.  The calibration  *)
(* session the Q0 session was built with has a fitted calibSlope.          *)
(***************************************************************************)
CalibSlopes == { Rat(-1, 50), Rat(-1, 100) }

\* the setpoint at the end of the run taken for the heater load itself
elecHeatLoadDesAbsolute(run) == At(elecHeatDesBuff, run.endIdx)

\* run.elecHeatLoadDes
elecHeatLoadDes(run) == At(elecHeatDesBuff, run.endIdx) - refHeatLoad

\* run.isNotHeaterRun
isNotHeaterRun(run) == elecHeatLoadDes(run) = 0

\* Q0DataRun.heatAdjustment: None for a run that is not a heater run
runHeatAdjustment(run) ==
    IF elecHeatLoadDes(run) # 0
    THEN RatSub(elecHeatLoad(run),
                RatDiv(run.slope, q0CalibSession.calibSlope))
    ELSE Unset

\* the truth value of a float or None: None and 0 are false, NaN is true
RatTruthy(a) == a.tag = "nan" \/ (IsRat(a) /\ a.n # 0)

\* numpy's mean of a non-empty list
mean(s) == RatDiv(RatSum(s), Rat(Len(s), 1))

\* Q0DataSession.aveHeatAdjustment
aveHeatAdjustment ==
    LET adjustments ==
            SelectSeq([i \in 1..Len(dataRuns) |-> runHeatAdjustment(dataRuns[i])],
                      RatTruthy)
    IN  IF adjustments # <<>> THEN mean(adjustments) ELSE Rat(0, 1)

\* Q0DataRun.totalHeatLoad
totalHeatLoad(run) ==
    IF isNotHeaterRun(run)
    THEN RatAdd(RatDiv(run.slope, q0CalibSession.calibSlope), aveHeatAdjustment)
    ELSE elecHeatLoad(run)

\* Q0DataRun.rfHeatLoad
rfHeatLoad(run) ==
    IF elecHeatLoadDes(run) # 0 THEN Rat(0, 1)
    ELSE RatSub(totalHeatLoad(run), elecHeatLoad(run))

\* the first test of Q0DataRun.q0: a heater run has no Q0
q0IsNone(run) == elecHeatLoadDes(run) # 0

\* Q0DataRun.printReport of run number Len(report) + 1; the values are kept
\* as they are read from the run, before they are rounded for printing
printReport ==
    /\ pc = "done"
    /\ kind = "q0"
    /\ "plotAndFitData" \in invoked
    /\ Len(report) < Len(dataRuns)
    /\ LET run == dataRuns[Len(report) + 1]
       IN  report' = Append(report,
                            [TOT |-> totalHeatLoad(run),
                             ELEC |-> elecHeatLoad(run),
                             RF |-> rfHeatLoad(run),
                             Q0Val |-> IF elecHeatLoadDes(run) # 0 THEN "None"
                                       ELSE "q0"])
    /\ UNCHANGED <<sessVars, q0Vars, cacheVars, fileSessions, q0CalibSession, laterVars>>

HeatInit ==
    /\ kind = "q0"
    /\ csvRows \in FitFiles
    /\ hasPressCol = TRUE
    /\ refValvePos = RefValve
    /\ refHeatLoad \in {0, 1}
    /\ unixTimeBuff = <<>>
    /\ dsLevelBuff = <<>>
    /\ valvePosBuff = <<>>
    /\ elecHeatDesBuff = <<>>
    /\ elecHeatActBuff = <<>>
    /\ gradBuff = <<>>
    /\ dsPressBuff = <<>>
    /\ dataRuns = <<>>
    /\ calibSlope = Unset
    /\ heatAdjustment = Rat(0, 1)
    /\ pc = "parse"
    /\ idx = 0
    /\ runStartIdx = 0
    /\ invoked = {}
    /\ emitted = <<>>
    /\ Q0Idle
    /\ CacheIdle
    /\ FilesIdle
    /\ q0CalibSession \in { [calibSlope |-> m] : m \in CalibSlopes }
    /\ report = <<>>
    /\ LaterIdle

\* processData of a Q0DataSession, which has no calibration fit, and then
\* printReport
HeatNext ==
    \/ parseDataFromCSV
    \/ populateRuns
    \/ checkRuns
    \/ adjustForSettle
    \/ processRuns
    \/ plotAndFitData
    \/ printReport

SpecHeat == HeatInit /\ [][HeatNext]_vars

\* the run is a heater run by the claim's own test: the setpoint at its end
\* index is away from the session's reference heat load
HeaterBySetpoint(run) == At(elecHeatDesBuff, run.endIdx) - refHeatLoad # 0

\* C19: for every run of a Q0 session, the run is a heater run iff the heater
\* setpoint at its end index minus the session reference heat load is not 0;
\* a heater run has RF heat load 0 and no Q0; a run that is not a heater run
\* has RF heat load = total heat load - electric heat load.
C19_HeaterRunSplit ==
    \A i \in 1..Len(report) :
        LET run == dataRuns[i]
            e == report[i]
        IN  /\ isNotHeaterRun(run) <=> ~HeaterBySetpoint(run)
            /\ HeaterBySetpoint(run) =>
                  /\ e.RF = Rat(0, 1)
                  /\ rfHeatLoad(run) = Rat(0, 1)
                  /\ e.Q0Val = "None"
                  /\ q0IsNone(run)
            /\ ~HeaterBySetpoint(run) =>
                  /\ e.RF = RatSub(e.TOT, e.ELEC)
                  /\ rfHeatLoad(run) = RatSub(totalHeatLoad(run), elecHeatLoad(run))
                  /\ e.Q0Val # "None"
                  /\ ~q0IsNone(run)

\* a reported session with a heater run and a run that is not one, whose RF
\* heat load is not 0, at a reference heat load that is not 0
C19_Witness ==
    /\ Len(report) = Len(dataRuns)
    /\ refHeatLoad # 0
    /\ \E i, j \in 1..Len(report) :
          /\ HeaterBySetpoint(dataRuns[i])
          /\ ~HeaterBySetpoint(dataRuns[j])
          /\ IsRat(report[j].RF)
          /\ report[j].RF # Rat(0, 1)
          /\ report[j].ELEC # Rat(0, 1)

\* the arithmetic mean of the heat adjustments of all heater runs, 0 when
\* the session has none
MeanOverHeaterRuns ==
    LET all == SelectSeq([i \in 1..Len(dataRuns) |-> runHeatAdjustment(dataRuns[i])],
                         LAMBDA a : a # Unset)
    IN  IF all = <<>> THEN Rat(0, 1) ELSE mean(all)

\* C20: for a run of a Q0 session that is not a heater run, total heat load
\* = run slope / calibration slope + A, A being the arithmetic mean of the
\* heat adjustments of all heater runs of the session, one whose adjustment
\* is exactly 0 included, and 0 when the session has no heater run.
C20_TotalHeatLoadMean ==
    \A i \in 1..Len(report) :
        ~HeaterBySetpoint(dataRuns[i]) =>
            report[i].TOT = RatAdd(RatDiv(dataRuns[i].slope,
                                          q0CalibSession.calibSlope),
                                   MeanOverHeaterRuns)

(***************************************************************************)
(* generateCSV of a session of a Cryomodule with two heaters: the raw rows *)
(* of the archive hold one setpoint and one readback cell per heater,      *)
(* which the session file replaces by two sums.  Columns are numbered from *)
(* 1 here, from 0 in the code.                                             *)
(***************************************************************************)
MaxRawRows == 2

heaterDesPVs == <<"POWER_SETPT1", "POWER_SETPT2">>
heaterActPVs == <<"POWER1", "POWER2">>

\* the header of the raw rows: the time column, then getPVs()
RawHeader == <<"time", "valvePV", "dsLevelPV", "usLevelPV">> \o heaterDesPVs \o heaterActPVs

\* the cells of a raw row for the four heater cells given
RawRow(des1, des2, act1, act2) == <<1, RefValve, MIN_DS_LL + 1, MIN_DS_LL + 1, des1, des2, act1, act2>>

RawRows ==
    { RawRow(d1, 2, a1, a2) : d1 \in {0, 1, Malformed}, a1 \in {4, Malformed}, a2 \in {0, 8} }

\* header.index(pv)
index(header, pv) == CHOOSE i \in 1..Len(header) : header[i] = pv /\ \A j \in 1..(i - 1) : header[j] # pv

\* populateHeaterCols(pvList, buff): the buffer after the call
populateHeaterCols(header, pvList, buff) == buff \o [k \in 1..Len(pvList) |-> index(header, pvList[k])]

\* the two calls of populateHeaterCols, each into the list of its own columns
heaterColsEachOwn(header) ==
    [des |-> populateHeaterCols(header, heaterDesPVs, <<>>),
     act |-> populateHeaterCols(header, heaterActPVs, <<>>)]

\* the two calls of populateHeaterCols as written: both pass heaterDesCols
heaterCols(header) ==
    [des |-> populateHeaterCols(header, heaterActPVs,
                                populateHeaterCols(header, heaterDesPVs, <<>>)),
     act |-> <<>>]

\* del seq[i]
DelAt(seq, i) == [k \in 1..(Len(seq) - 1) |-> IF k < i THEN seq[k] ELSE seq[k + 1]]

RECURSIVE sortedReverse(_)
sortedReverse(cols) ==
    IF cols = <<>> THEN <<>>
    ELSE LET m == CHOOSE k \in 1..Len(cols) : \A j \in 1..Len(cols) : cols[j] <= cols[k]
         IN  <<cols[m]>> \o sortedReverse(DelAt(cols, m))

\* for index in colsToDelete: del row[index]
RECURSIVE delCols(_, _)
delCols(row, colsToDelete) ==
    IF colsToDelete = <<>> THEN row
    ELSE delCols(DelAt(row, Head(colsToDelete)), Tail(colsToDelete))

\* the sum loop over the columns: None at the first cell float() rejects
RECURSIVE sumCols(_, _, _)
sumCols(row, cols, acc) ==
    IF cols = <<>> THEN acc
    ELSE IF row[Head(cols)] = Malformed THEN None
    ELSE sumCols(row, Tail(cols), acc + row[Head(cols)])

\* the row written for a raw row
collapsedRow(row, cols) ==
    LET colsToDelete == sortedReverse(cols.des \o cols.act)
    IN  delCols(row, colsToDelete)
            \o <<sumCols(row, cols.des, 0), sumCols(row, cols.act, 0)>>

collapsedHeader(header, cols) ==
    delCols(header, sortedReverse(cols.des \o cols.act))
        \o <<"Electric Heat Load Setpoint", "Electric Heat Load Readback">>

generateCSV ==
    /\ genResult = "called"
    /\ IF sessionFile.exists
       THEN /\ genResult' = "fileName"
            /\ UNCHANGED sessionFile
       ELSE IF ~archive.available
       THEN /\ genResult' = "None"
            /\ UNCHANGED sessionFile
       ELSE LET cols == heaterCols(archive.header)
            IN  /\ sessionFile' =
                      [exists |-> TRUE,
                       header |-> collapsedHeader(archive.header, cols),
                       rows |-> [k \in 1..Len(archive.rows) |->
                                    collapsedRow(archive.rows[k], cols)]]
                /\ genResult' = "fileName"
    /\ UNCHANGED archive
    /\ UNCHANGED <<sessVars, q0Vars, cacheVars, fileSessions, q0CalibSession, report>>
    /\ UNCHANGED <<familyVars, rerunVars>>

GenInit ==
    /\ archive \in {NoArchive} \cup
                    { [available |-> TRUE, header |-> RawHeader, rows |-> rs] :
                        rs \in SeqsUpTo(RawRows, MaxRawRows) }
    /\ sessionFile \in { NoFile,
                         [exists |-> TRUE, header |-> <<"time">>, rows |-> <<>>] }
    /\ genResult = "called"
    /\ kind = "calib"
    /\ csvRows = <<>>
    /\ hasPressCol = TRUE
    /\ refValvePos = RefValve
    /\ refHeatLoad = 1
    /\ unixTimeBuff = <<>>
    /\ dsLevelBuff = <<>>
    /\ valvePosBuff = <<>>
    /\ elecHeatDesBuff = <<>>
    /\ elecHeatActBuff = <<>>
    /\ gradBuff = <<>>
    /\ dsPressBuff = <<>>
    /\ dataRuns = <<>>
    /\ calibSlope = Unset
    /\ heatAdjustment = Rat(0, 1)
    /\ pc = "parse"
    /\ idx = 0
    /\ runStartIdx = 0
    /\ invoked = {}
    /\ emitted = <<>>
    /\ Q0Idle
    /\ CacheIdle
    /\ FilesIdle
    /\ HeatIdle
    /\ FamilyIdle
    /\ RerunIdle

GenNext == generateCSV

SpecGen == GenInit /\ [][GenNext]_vars

\* the file was written by this call from the raw rows of the archive
Generated ==
    /\ genResult = "fileName"
    /\ archive.available
    /\ Len(sessionFile.rows) = Len(archive.rows)
    /\ sessionFile.header # <<"time">>

HeaterPVs == { heaterDesPVs[k] : k \in 1..Len(heaterDesPVs) } \cup { heaterActPVs[k] : k \in 1..Len(heaterActPVs) }

\* C21: when the session file is generated from raw archive rows, each output
\* row's "Electric Heat Load Setpoint" value is the sum of that row's
\* per-heater setpoint cells only, its "Electric Heat Load Readback" value the
\* sum of that row's per-heater readback cells only, and the individual
\* heater columns are removed.  Stated for the rows whose heater cells are
\* all numbers.
C21_HeaterColumnsCollapsed ==
    Generated =>
        /\ \A k \in 1..Len(sessionFile.header) : sessionFile.header[k] \notin HeaterPVs
        /\ \A k \in 1..Len(archive.rows) :
              LET raw == archive.rows[k]
                  out == sessionFile.rows[k]
                  own == heaterColsEachOwn(archive.header)
              IN  (\A c \in 5..8 : raw[c] # Malformed) =>
                      /\ Len(out) = Len(sessionFile.header)
                      /\ out[index(sessionFile.header, "Electric Heat Load Setpoint")]
                            = raw[own.des[1]] + raw[own.des[2]]
                      /\ out[index(sessionFile.header, "Electric Heat Load Readback")]
                            = raw[own.act[1]] + raw[own.act[2]]

(***************************************************************************)
(* A Cryomodule and two of its Cavities.  Every Container is constructed   *)
(* with a dictionary of its own; the hash of a Cavity request does not     *)
(* hold the cavity number, so the same request has the same hash in both   *)
(* Cavities.                                                               *)
(***************************************************************************)
MaxFamilyCalls == 3

\* a dictionary that all Containers share
sharedCache(all, c, stored) == [d \in DOMAIN all |-> stored]

\* self.dataSessions[sessionHash] = session on the Container's own dictionary
ownCache(all, c, stored) == [all EXCEPT ![c] = stored]

\* Container.addDataSession on container c
addDataSessionOn(c) ==
    /\ familyCalls < MaxFamilyCalls
    /\ \E startTime \in Times :
        LET endTime == 2
            timeInt == 1
            calibSession == IF c = "CM" THEN None
                            ELSE DataSessionHash(1, 2, 1, cryModNumSLAC,
                                                 cryModNumJLAB)
            refGrad == IF c = "CM" THEN None ELSE NominalGrad
            sessionHash == containerHash(IF c = "CM" THEN "CM" ELSE "CAV",
                                         startTime, endTime, timeInt,
                                         calibSession, refGrad)
            session == genDataSession(familyCalls + 1, startTime, endTime,
                                      timeInt, RefValve, 1, refGrad,
                                      calibSession)
        IN  /\ caches' = ownCache(caches, c,
                                  storeIfAbsent(caches[c], sessionHash, session))
            /\ familyLast' = [container |-> c, sessionHash |-> sessionHash]
    /\ familyCalls' = familyCalls + 1
    /\ UNCHANGED <<sessVars, q0Vars, cacheVars, fileSessions, q0CalibSession, report>>
    /\ UNCHANGED <<genVars, rerunVars>>

addDataSessionCryomodule == addDataSessionOn("CM")

addDataSessionCavity == \E c \in {"CAV1", "CAV2"} : addDataSessionOn(c)

FamilyInit ==
    /\ FamilyIdle
    /\ GenIdle
    /\ RerunIdle
    /\ kind = "calib"
    /\ csvRows = <<>>
    /\ hasPressCol = TRUE
    /\ refValvePos = RefValve
    /\ refHeatLoad = 1
    /\ unixTimeBuff = <<>>
    /\ dsLevelBuff = <<>>
    /\ valvePosBuff = <<>>
    /\ elecHeatDesBuff = <<>>
    /\ elecHeatActBuff = <<>>
    /\ gradBuff = <<>>
    /\ dsPressBuff = <<>>
    /\ dataRuns = <<>>
    /\ calibSlope = Unset
    /\ heatAdjustment = Rat(0, 1)
    /\ pc = "parse"
    /\ idx = 0
    /\ runStartIdx = 0
    /\ invoked = {}
    /\ emitted = <<>>
    /\ Q0Idle
    /\ CacheIdle
    /\ FilesIdle
    /\ HeatIdle

FamilyNext ==
    \/ addDataSessionCryomodule
    \/ addDataSessionCavity

SpecFamily == FamilyInit /\ [][FamilyNext]_vars

\* C22: addDataSession on one Cavity changes only that Cavity's session
\* cache: the caches of the sibling Cavities of the same Cryomodule and of
\* the parent Cryomodule are unchanged, also when the request parameters
\* equal those of a session cached in a sibling.
C22_OnlyOwnCacheChanges ==
    [][familyCalls' = familyCalls + 1 =>
          \A d \in Containers :
              d # familyLast'.container => caches'[d] = caches[d]]_vars

\* a Cavity was asked for the request its sibling has cached: both hold a
\* session of their own under the same hash, and the Cryomodule holds one too
C22_Witness ==
    /\ familyLast.container = "CAV2"
    /\ familyLast.sessionHash \in DOMAIN caches["CAV1"]
    /\ familyLast.sessionHash \in DOMAIN caches["CAV2"]
    /\ caches["CAV1"][familyLast.sessionHash].serial
          # caches["CAV2"][familyLast.sessionHash].serial
    /\ caches["CM"] # <<>>

\* the identity fields of a request and of a session
Identity(r) == <<r.startTime, r.endTime, r.timeInt, r.calibSession, r.refGradVal>>

\* C23: within one Container's cache, two requests whose identity fields
\* differ (start time, end time, sample interval, and for a Cavity the
\* calibration session or reference gradient) never resolve to the same
\* cached session: a request that found its hash in the cache got back a
\* session made for the same identity fields.
C23_DistinctIdentityDistinctSession ==
    lastCall.hit => Identity(returned) = Identity(lastCall)

(***************************************************************************)
(* The samples inside the runs segmentation emits                          *)
(***************************************************************************)
\* the steady state conditions on sample j
Steady(j) ==
    /\ At(dsLevelBuff, j) >= MIN_DS_LL
    /\ Abs(At(valvePosBuff, j) - refValvePos) <= VALVE_POSITION_TOLERANCE
    /\ Abs(At(elecHeatDesBuff, j) - At(elecHeatActBuff, j)) <= HEATER_TOLERANCE

\* C24: every sample index j of a run emitted by segmentation (start <= j <=
\* end, the start sample included) satisfies the steady state conditions:
\* downstream level[j] >= the floor, |valve position[j] - reference valve
\* position| <= the valve tolerance, and the heater readback within the
\* heater tolerance of the setpoint.
C24_SteadyInsideRuns ==
    \A r \in RunIdx(emitted) :
        \A j \in emitted[r].startIdx..emitted[r].endIdx : Steady(j)

\* C25: the heater setpoint sum has the same value at every index of a run
\* emitted by segmentation, from its start index through its end index, and
\* in a Q0 session consecutive gradient samples inside an emitted run differ
\* by at most the gradient tolerance.
C25_SetpointConstantInRuns ==
    \A r \in RunIdx(emitted) :
        \A j \in (emitted[r].startIdx + 1)..emitted[r].endIdx :
            /\ At(elecHeatDesBuff, j) = At(elecHeatDesBuff, emitted[r].startIdx)
            /\ (kind = "q0" /\ At(gradBuff, j) # None /\ At(gradBuff, j - 1) # None) =>
                  10 * Abs(At(gradBuff, j) - At(gradBuff, j - 1))
                      <= GRAD_TOLERANCE_TENTHS

\* a run of a Q0 session of more than one sample that starts at a gradient
\* step and ends before a setpoint step
C25_Witness ==
    /\ kind = "q0"
    /\ \E r \in RunIdx(emitted) :
          /\ emitted[r].startIdx > 0
          /\ emitted[r].endIdx > emitted[r].startIdx
          /\ gradChanged(emitted[r].startIdx)
          /\ heaterChanged(emitted[r].endIdx + 1)

\* the samples of buff at the indices a through b, both included
Inclusive(buff, a, b) == [j \in 1..(b - a + 1) |-> At(buff, a + j - 1)]

\* the run has gone through the regression of processRuns
Fitted(run) == run.slope # Unset

\* C26: for a run emitted at a break at index i, the samples used by the
\* per-run regression cover every index from the run's start through i - 1:
\* the sample at the run's end index is included.
C26_RegressionCoversEndIndex ==
    \A r \in RunIdx(dataRuns) :
        (Fitted(dataRuns[r]) /\ dataRuns[r].startIdx <= dataRuns[r].endIdx) =>
            /\ runTimes(dataRuns[r])
                  = Inclusive(unixTimeBuff, dataRuns[r].startIdx, dataRuns[r].endIdx)
            /\ runData(dataRuns[r])
                  = Inclusive(dsLevelBuff, dataRuns[r].startIdx, dataRuns[r].endIdx)

(***************************************************************************)
(* processData on files with heater steps of 3 W: steady samples 25 s or   *)
(* 50 s apart at a setpoint of 1 W or 4 W.                                 *)
(***************************************************************************)
MaxSettleRows == 4

SettleRows ==
    { Row(dt, MIN_DS_LL + 1, RefValve, d, d, NominalGrad) : dt \in {25, 50}, d \in {1, 4} }

SettleInit ==
    /\ kind \in {"calib", "q0"}
    /\ csvRows \in SeqsUpTo(SettleRows, MaxSettleRows)
    /\ hasPressCol = TRUE
    /\ refValvePos = RefValve
    /\ refHeatLoad = 1
    /\ unixTimeBuff = <<>>
    /\ dsLevelBuff = <<>>
    /\ valvePosBuff = <<>>
    /\ elecHeatDesBuff = <<>>
    /\ elecHeatActBuff = <<>>
    /\ gradBuff = <<>>
    /\ dsPressBuff = <<>>
    /\ dataRuns = <<>>
    /\ calibSlope = Unset
    /\ heatAdjustment = Rat(0, 1)
    /\ pc = "parse"
    /\ idx = 0
    /\ runStartIdx = 0
    /\ invoked = {}
    /\ emitted = <<>>
    /\ Q0Idle
    /\ CacheIdle
    /\ FilesIdle
    /\ HeatIdle
    /\ LaterIdle

SpecSettle == SettleInit /\ [][Next]_vars

\* adjustForSettle is at a run whose loop reads unixTimeBuff past its end
SettleOverrun ==
    /\ pc = "settle"
    /\ idx < Len(dataRuns)
    /\ settledStart(dataRuns, idx) = None

\* C27: settle trimming ends for every run without reading a buffer index
\* beyond the last sample: the advancing index never exceeds
\* len(unixTimeBuff) - 1, also when the computed cutoff is longer than the
\* time remaining in the buffer, and so trimming never faults.
C27_SettleStaysInBuffer ==
    /\ ~SettleOverrun
    /\ (pc = "fault" /\ "adjustForSettle" \in invoked) => "processRuns" \in invoked

(***************************************************************************)
(* processData called a second time on the session it has processed        *)
(***************************************************************************)
\* the buffers and the run list of the session
Snapshot ==
    [unixTimeBuff |-> unixTimeBuff, dsLevelBuff |-> dsLevelBuff,
     valvePosBuff |-> valvePosBuff, elecHeatDesBuff |-> elecHeatDesBuff,
     elecHeatActBuff |-> elecHeatActBuff, gradBuff |-> gradBuff,
     dsPressBuff |-> dsPressBuff, dataRuns |-> dataRuns]

\* the caller invokes processData on the session again
processDataAgain ==
    /\ pc = "done"
    /\ passes = 1
    /\ passes' = 2
    /\ firstPass' = Snapshot
    /\ pc' = "parse"
    /\ UNCHANGED <<kind, csvRows, refValvePos, refHeatLoad, unixTimeBuff,
                   dsLevelBuff, valvePosBuff, elecHeatDesBuff, elecHeatActBuff,
                   gradBuff, dsPressBuff, hasPressCol, dataRuns, calibSlope,
                   heatAdjustment, idx, runStartIdx, invoked, emitted>>
    /\ UNCHANGED <<q0Vars, cacheVars, fileSessions, q0CalibSession, report>>
    /\ UNCHANGED <<genVars, familyVars>>

RerunNext ==
    \/ Next
    \/ processDataAgain

SpecRerun == SettleInit /\ [][RerunNext]_vars

\* C28: running processData a second time on the same session leaves the
\* session as it was after the first time: the buffers have the same length
\* and contents and the run list holds the same runs, with no duplicated
\* samples or duplicated runs.
C28_SecondPassSameSession ==
    (passes = 2 /\ pc = "done") => Snapshot = firstPass

\* populateRuns is at an index where isEndOfCalibRun raises TypeError
SegmentationRaises ==
    /\ pc = "populate"
    /\ idx < Len(elecHeatDesBuff)
    /\ isEndOfCalibRunRaises(idx)

\* a sample of some channel buffer is the missing value
HoldsNone(buff) == \E j \in 1..Len(buff) : buff[j] = None

\* C29: segmentation completes without a fault when any channel buffer
\* (valve position, downstream level, heater setpoint sum, heater readback
\* sum, gradient) holds the missing value at some index: the bad sample is
\* skipped or ends the pending run, and the scan goes on to the last index.
C29_SegmentationSurvivesNone ==
    (HoldsNone(valvePosBuff) \/ HoldsNone(dsLevelBuff) \/ HoldsNone(elecHeatDesBuff)
        \/ HoldsNone(elecHeatActBuff) \/ HoldsNone(gradBuff)) =>
        /\ ~SegmentationRaises
        /\ pc = "fault" => ("adjustForSettle" \in invoked \/ "processRuns" \in invoked)

\* two sessions of the same container over windows that are not empty, which
\* differ in start time, end time or sample interval
DifferentRequests(a, b) ==
    /\ a.cavNum = b.cavNum
    /\ a.startTime < a.endTime
    /\ b.startTime < b.endTime
    /\ <<a.startTime, a.endTime, a.timeInt>> # <<b.startTime, b.endTime, b.timeInt>>

\* C30: two sessions of the same container that differ in start time, end
\* time or sample interval have different persisted file names, so one
\* session never loads the raw data file written for another.
C30_DifferentRequestsDifferentNames ==
    \A i, j \in 1..Len(fileSessions) :
        (/\ DifferentRequests(fileSessions[i], fileSessions[j])
         /\ fileSessions[i].dataFileName # NoName
         /\ fileSessions[j].dataFileName # NoName) =>
            fileSessions[i].dataFileName # fileSessions[j].dataFileName

====
